---- MODULE Spec2Model ----
(***************************************************************************)
(* The credential configuration builders of purpleclay/daggerverse:        *)
(* the format-aware netrc module (AutoLogin, its serializer and its chomp  *)
(* grammar) and the oci-login module (ContainerAuth).  Text is a sequence  *)
(* of one-character strings, so that the serializer and the parser work on *)
(* characters as the Go code does.                                         *)
(***************************************************************************)
EXTENDS Integers, Sequences, FiniteSets, TLC

VARIABLES netrc, hist, last, oci, olast, input

vars == <<netrc, hist, last, oci, olast, input>>

(***************************************************************************)
(* Characters and strings                                                  *)
(***************************************************************************)
SP == " "
TAB == "\t"
LF == "\n"
CR == "\r"

\* unicode.IsSpace over the characters the model writes
WhiteSpace == {SP, TAB, LF, CR}

IsWhitespace(r) == r \in WhiteSpace

\* A charset that leaves out the line feed
NotCharsetNoLF == {CR, SP}

\* The charset of chomp.Not("\r\n ") in eatIdent
NotCharset == {CR, LF, SP}

machineIdent == <<"m", "a", "c", "h", "i", "n", "e">>
loginIdent == <<"l", "o", "g", "i", "n">>
passwordIdent == <<"p", "a", "s", "s", "w", "o", "r", "d">>

Compact == "compact"
Full == "full"

Drop(s, n) == SubSeq(s, n + 1, Len(s))

HasPrefix(s, p) == Len(p) <= Len(s) /\ SubSeq(s, 1, Len(p)) = p

\* The scanning loop of chomp.While and chomp.Not: the number of characters
\* of s after position pos whose membership in chars is `member`, added to pos
RECURSIVE Scan(_, _, _, _)
Scan(s, pos, chars, member) ==
  IF pos < Len(s) /\ ((s[pos + 1] \in chars) = member)
  THEN Scan(s, pos + 1, chars, member)
  ELSE pos

\* The last position of s, at or before pos, that holds no whitespace
RECURSIVE ScanBack(_, _)
ScanBack(s, pos) ==
  IF pos > 0 /\ IsWhitespace(s[pos]) THEN ScanBack(s, pos - 1) ELSE pos

\* strings.TrimSpace
TrimSpace(s) == SubSeq(s, Scan(s, 0, WhiteSpace, TRUE) + 1, ScanBack(s, Len(s)))

(***************************************************************************)
(* Serializer                                                              *)
(***************************************************************************)
Login(machine, username, password) ==
  [Machine |-> machine, Username |-> username, Password |-> password]

\* compact without the newline that ends the record
compactNoNewline(l) ==
  machineIdent \o <<SP>> \o l.Machine \o <<SP>> \o loginIdent \o <<SP>>
    \o l.Username \o <<SP>> \o passwordIdent \o <<SP>> \o l.Password

\* fmt.Sprintf("machine %s login %s password %s\n", ...)
compact(l) ==
  machineIdent \o <<SP>> \o l.Machine \o <<SP>> \o loginIdent \o <<SP>>
    \o l.Username \o <<SP>> \o passwordIdent \o <<SP>> \o l.Password \o <<LF>>

\* full with the fields of a record on one line
fullOnOneLine(l) ==
  machineIdent \o <<SP>> \o l.Machine \o <<SP>> \o loginIdent \o <<SP>>
    \o l.Username \o <<SP>> \o passwordIdent \o <<SP>> \o l.Password \o <<LF>>

\* fmt.Sprintf("machine %s\nlogin %s\npassword %s\n", ...)
full(l) ==
  machineIdent \o <<SP>> \o l.Machine \o <<LF>> \o loginIdent \o <<SP>>
    \o l.Username \o <<LF>> \o passwordIdent \o <<SP>> \o l.Password \o <<LF>>

\* The value String returns when the format selects no function: the call
\* of the nil func value panics
Panic == <<"panic">>

RECURSIVE WriteLogins(_, _)
WriteLogins(logins, format) ==
  IF logins = <<>> THEN <<>>
  ELSE (IF format = Compact THEN compact(Head(logins)) ELSE full(Head(logins)))
         \o WriteLogins(Tail(logins), format)

\* String without the call of strings.TrimSpace
StringNoTrim(a) ==
  IF a.Logins # <<>> /\ a.Format \notin {Compact, Full} THEN Panic
  ELSE WriteLogins(a.Logins, a.Format)

\* AutoLogin.String
String(a) ==
  IF a.Logins # <<>> /\ a.Format \notin {Compact, Full} THEN Panic
  ELSE TrimSpace(WriteLogins(a.Logins, a.Format))

(***************************************************************************)
(* chomp combinators as eatIdent and fromConfiguration use them.  A result *)
(* is the triple (rem, ext, err) of the Go code.                           *)
(***************************************************************************)
Result(rem, ext, err) == [rem |-> rem, ext |-> ext, err |-> err]

\* chomp.Tag(ident)
Tag(ident, s) ==
  IF HasPrefix(s, ident) THEN Result(Drop(s, Len(ident)), ident, FALSE)
  ELSE Result(s, <<>>, TRUE)

\* chomp.While(IsWhitespace): the predicate must match at least one character
While(s) ==
  LET pos == Scan(s, 0, WhiteSpace, TRUE)
  IN IF pos = 0 THEN Result(s, <<>>, TRUE)
     ELSE Result(Drop(s, pos), SubSeq(s, 1, pos), FALSE)

\* chomp.Not("\r\n "): at least one character outside the charset
Not(s) ==
  LET pos == Scan(s, 0, NotCharset, FALSE)
  IN IF pos = 0 THEN Result(s, <<>>, TRUE)
     ELSE Result(Drop(s, pos), SubSeq(s, 1, pos), FALSE)

\* chomp.Crlf(): "\n" or "\r\n"
Crlf(s) ==
  IF HasPrefix(s, <<LF>>) THEN Result(Drop(s, 1), <<LF>>, FALSE)
  ELSE IF HasPrefix(s, <<CR, LF>>) THEN Result(Drop(s, 2), <<CR, LF>>, FALSE)
  ELSE Result(s, <<>>, TRUE)

\* chomp.Opt(c): the error of c is swallowed
Opt(r) == Result(r.rem, r.ext, FALSE)

\* The error of chomp.All: the error of the combinator that failed
Failed(r) == Result(r.rem, <<>>, TRUE)

\* eatIdent after Opt(While): Opt(Crlf), then the value is kept (ext[2])
eatCrlf(value, r4) == Result(Opt(Crlf(r4.rem)).rem, value, FALSE)

\* eatIdent after Not: Opt(While)
eatTrail(r3) == IF r3.err THEN Failed(r3) ELSE eatCrlf(r3.ext, Opt(While(r3.rem)))

\* eatIdent after While: Not
eatValue(r2) == IF r2.err THEN Failed(r2) ELSE eatTrail(Not(r2.rem))

\* eatIdent after Tag: While
eatSpace(r1) == IF r1.err THEN Failed(r1) ELSE eatValue(While(r1.rem))

\* eatIdent(ident): All(Tag, While, Not, Opt(While), Opt(Crlf)), then ext[2]
eatIdent(ident, s) == eatSpace(Tag(ident, s))

\* The triple after eatIdent(passwordIdent)
TripleEnd(machine, login, r3) ==
  IF r3.err THEN Failed(r3) ELSE Result(r3.rem, <<machine, login, r3.ext>>, FALSE)

\* The triple after eatIdent(loginIdent)
TriplePassword(machine, r2) ==
  IF r2.err THEN Failed(r2)
  ELSE TripleEnd(machine, r2.ext, eatIdent(passwordIdent, r2.rem))

\* The triple after eatIdent(machineIdent)
TripleLogin(r1) ==
  IF r1.err THEN Failed(r1) ELSE TriplePassword(r1.ext, eatIdent(loginIdent, r1.rem))

\* chomp.All(eatIdent(machineIdent), eatIdent(loginIdent), eatIdent(passwordIdent))
Triple(s) == TripleLogin(eatIdent(machineIdent, s))

\* The loop of chomp.ManyN: the combinator is applied until it fails; r is
\* its result on rem
RECURSIVE ManyLoop(_, _, _, _)
ManyLoop(rem, ext, count, r) ==
  IF r.err THEN [rem |-> rem, ext |-> ext, count |-> count]
  ELSE ManyLoop(r.rem, ext \o r.ext, count + 1, Triple(r.rem))

\* ManyN that also fails when input is left over
ManyCountAll(s, n, l) ==
  IF l.count < n \/ l.rem # <<>> THEN Result(s, <<>>, TRUE)
  ELSE Result(l.rem, l.ext, FALSE)

\* The end of chomp.ManyN: fewer than n repetitions is an error
ManyCount(s, n, l) ==
  IF l.count < n THEN Result(s, <<>>, TRUE) ELSE Result(l.rem, l.ext, FALSE)

\* chomp.ManyN(c, n)
ManyN(s, n) == ManyCount(s, n, ManyLoop(s, <<>>, 0, Triple(s)))

\* A mapping function that reads the password before the username
RECURSIVE ToLoginsSwapped(_, _)
ToLoginsSwapped(in, i) ==
  IF i > Len(in) THEN <<>>
  ELSE <<Login(in[i], in[i + 2], in[i + 1])>> \o ToLoginsSwapped(in, i + 3)

\* The mapping function of fromConfiguration: a series of three
RECURSIVE ToLogins(_, _)
ToLogins(in, i) ==
  IF i > Len(in) THEN <<>>
  ELSE <<Login(in[i], in[i + 1], in[i + 2])>> \o ToLogins(in, i + 3)

\* chomp.Map with the mapping function that swaps username and password
MapSwapped(r) ==
  IF r.err THEN [logins |-> <<>>, err |-> TRUE]
  ELSE [logins |-> ToLoginsSwapped(r.ext, 1), err |-> FALSE]

\* chomp.Map over the result of ManyN
Map(r) ==
  IF r.err THEN [logins |-> <<>>, err |-> TRUE]
  ELSE [logins |-> ToLogins(r.ext, 1), err |-> FALSE]

\* fromConfiguration that accepts a text without a triple
fromConfigurationAny(cfg) == Map(ManyN(cfg, 0))

\* fromConfiguration: (ext, err)
fromConfiguration(cfg) == Map(ManyN(cfg, 1))

(***************************************************************************)
(* The Netrc module.  netrc[i] is the Config of instance i; last[i] is the *)
(* last call made on instance i with what it returned; hist[i] records what *)
(* every successful call on instance i contributed.                        *)
(***************************************************************************)
MaxLogins == 4

AutoLogin(logins, format) == [Logins |-> logins, Format |-> format]

\* A dagger.Secret or dagger.File handle: Plaintext/Contents returns (value, err)
Handle(value, err) == [value |-> value, err |-> err]

NoName == [literal |-> <<>>, hex |-> <<>>]

\* A call: the method, its argument, whether it returned an error, the
\* records held before it, and the name and content of what it returned
Call(op, arg, err, before, name, contents) ==
  [op |-> op, arg |-> arg, err |-> err, before |-> before, name |-> name,
   contents |-> contents]

\* What a successful call added to the records
Contribution(op, recs) == [op |-> op, recs |-> recs]

\* The history h with the contribution c of instance i, when h follows i
Recorded(h, i, c) == IF i \in DOMAIN h THEN [h EXCEPT ![i] = Append(@, c)] ELSE h

\* New(format)
New(format) == AutoLogin(<<>>, format)

\* WithLogin that skips a triple the list already holds
WithLoginDedup(m, machine, username, password) ==
  IF password.err \/ username.err THEN [m |-> m, err |-> TRUE]
  ELSE [m |-> AutoLogin(IF \E k \in 1..Len(m.Logins) :
                             m.Logins[k] = Login(machine, username.value, password.value)
                        THEN m.Logins
                        ELSE Append(m.Logins,
                                    Login(machine, username.value, password.value)),
                        m.Format),
        err |-> FALSE]

\* WithLogin that does not look at the error of the username
WithLoginPasswordOnly(m, machine, username, password) ==
  IF password.err THEN [m |-> m, err |-> TRUE]
  ELSE [m |-> AutoLogin(Append(m.Logins, Login(machine, username.value, password.value)),
                        m.Format),
        err |-> FALSE]

\* WithLogin that drops the records held when a secret fails to resolve
WithLoginReset(m, machine, username, password) ==
  IF password.err \/ username.err THEN [m |-> AutoLogin(<<>>, m.Format), err |-> TRUE]
  ELSE [m |-> AutoLogin(Append(m.Logins, Login(machine, username.value, password.value)),
                        m.Format),
        err |-> FALSE]

\* Netrc.WithLogin: the password is resolved first, then the username
WithLoginResult(m, machine, username, password) ==
  IF password.err \/ username.err THEN [m |-> m, err |-> TRUE]
  ELSE [m |-> AutoLogin(Append(m.Logins, Login(machine, username.value, password.value)),
                        m.Format),
        err |-> FALSE]

WithLogin(i, machine, username, password) ==
  LET r == WithLoginResult(netrc[i], machine, username, password)
  IN /\ Len(netrc[i].Logins) < MaxLogins
     /\ netrc' = [netrc EXCEPT ![i] = r.m]
     /\ hist' = [hist EXCEPT ![i] = IF r.err THEN @
                                    ELSE Append(@, Contribution("WithLogin",
                                                     <<Login(machine, username.value,
                                                             password.value)>>))]
     /\ last' = [last EXCEPT ![i] = Call("WithLogin", <<machine, username, password>>,
                                         r.err, netrc[i].Logins, NoName, <<>>)]
     /\ UNCHANGED <<oci, olast, input>>

\* WithFile that assigns the parsed records before it looks at the error
WithFileAssign(m, cfg) ==
  LET parsed == fromConfiguration(cfg.value)
  IN IF cfg.err \/ parsed.err THEN [m |-> AutoLogin(parsed.logins, m.Format), err |-> TRUE]
     ELSE [m |-> AutoLogin(m.Logins \o parsed.logins, m.Format), err |-> FALSE]

\* WithFile that puts the records of the file before the records held
WithFilePrepend(m, cfg) ==
  LET parsed == fromConfiguration(cfg.value)
  IN IF cfg.err \/ parsed.err THEN [m |-> m, err |-> TRUE]
     ELSE [m |-> AutoLogin(parsed.logins \o m.Logins, m.Format), err |-> FALSE]

\* WithFile that appends the first record of the file only
WithFileParsedFirst(m, cfg, parsed) ==
  IF cfg.err \/ parsed.err THEN [m |-> m, err |-> TRUE]
  ELSE [m |-> AutoLogin(m.Logins \o SubSeq(parsed.logins, 1, 1), m.Format), err |-> FALSE]

\* Netrc.WithFile after fromConfiguration
WithFileParsed(m, cfg, parsed) ==
  IF cfg.err \/ parsed.err THEN [m |-> m, err |-> TRUE]
  ELSE [m |-> AutoLogin(m.Logins \o parsed.logins, m.Format), err |-> FALSE]

\* Netrc.WithFile
WithFileResult(m, cfg) == WithFileParsed(m, cfg, fromConfiguration(cfg.value))

\* The call of WithFile on instance i that returns r
WithFileCall(i, cfg, r) ==
  /\ Len(r.m.Logins) <= MaxLogins
  /\ netrc' = [netrc EXCEPT ![i] = r.m]
  /\ hist' = [hist EXCEPT ![i] = IF r.err THEN @
                                 ELSE Append(@, Contribution("WithFile",
                                                  fromConfiguration(cfg.value).logins))]
  /\ last' = [last EXCEPT ![i] = Call("WithFile", cfg, r.err, netrc[i].Logins,
                                      NoName, <<>>)]
  /\ UNCHANGED <<oci, olast, input>>

WithFile(i, cfg) == WithFileCall(i, cfg, WithFileResult(netrc[i], cfg))

\* AsFile that hands the records over and leaves the instance empty
AsFileDraining(i) ==
  LET text == String(netrc[i])
  IN /\ last' = [last EXCEPT ![i] =
                   IF text = Panic
                   THEN Call("AsFile", <<>>, TRUE, netrc[i].Logins, NoName, <<>>)
                   ELSE Call("AsFile", <<>>, FALSE, netrc[i].Logins, NoName, text)]
     /\ netrc' = [netrc EXCEPT ![i] = New(@.Format)]
     /\ UNCHANGED <<hist, oci, olast, input>>

\* Netrc.AsFile: the call panics when String panics
AsFile(i) ==
  LET text == String(netrc[i])
  IN /\ last' = [last EXCEPT ![i] =
                   IF text = Panic
                   THEN Call("AsFile", <<>>, TRUE, netrc[i].Logins, NoName, <<>>)
                   ELSE Call("AsFile", <<>>, FALSE, netrc[i].Logins, NoName, text)]
     /\ UNCHANGED <<netrc, hist, oci, olast, input>>

\* hex.EncodeToString(md5.Sum(text)): the digest is kept abstract and
\* collision-free, a value that stands for the 32 hexadecimal digits
Md5Hex(text) == <<"md5", text>>

netrcPrefix == <<"n", "e", "t", "r", "c", "-">>

\* A secret whose derived name is the digest of the text before it is trimmed
NetrcSecretRawDigest(m, name) ==
  [name |-> IF name = <<>>
            THEN [literal |-> netrcPrefix, hex |-> Md5Hex(WriteLogins(m.Logins, m.Format))]
            ELSE [literal |-> name, hex |-> <<>>],
   contents |-> String(m)]

\* A secret whose name always ends in the digest
NetrcSecretDigestSuffix(m, name) ==
  [name |-> [literal |-> IF name = <<>> THEN netrcPrefix ELSE name,
             hex |-> Md5Hex(String(m))],
   contents |-> String(m)]

\* A secret whose content is the text before it is trimmed
NetrcSecretRawContents(m, name) ==
  [name |-> IF name = <<>> THEN [literal |-> netrcPrefix, hex |-> Md5Hex(String(m))]
            ELSE [literal |-> name, hex |-> <<>>],
   contents |-> WriteLogins(m.Logins, m.Format)]

\* The name and the content of the secret Netrc.AsSecret sets
NetrcSecret(m, name) ==
  [name |-> IF name = <<>> THEN [literal |-> netrcPrefix, hex |-> Md5Hex(String(m))]
            ELSE [literal |-> name, hex |-> <<>>],
   contents |-> String(m)]

AsSecret(i, name) ==
  LET s == NetrcSecret(netrc[i], name)
  IN /\ last' = [last EXCEPT ![i] =
                   IF String(netrc[i]) = Panic
                   THEN Call("AsSecret", name, TRUE, netrc[i].Logins, NoName, <<>>)
                   ELSE Call("AsSecret", name, FALSE, netrc[i].Logins, s.name, s.contents)]
     /\ UNCHANGED <<netrc, hist, oci, olast, input>>

(***************************************************************************)
(* The OciLogin module.  oci[i] is Config.Auths of instance i, a map from  *)
(* hostname to Auth; olast[i] is the last call made on instance i.         *)
(***************************************************************************)
\* The printable ASCII characters: Ascii[k] has the code 31 + k (the grave
\* accent, which a string of the module cannot hold, is spelled out)
Ascii ==
  << " ", "!", "\"", "#", "$", "%", "&", "'", "(", ")", "*", "+", ",", "-", ".", "/",
     "0", "1", "2", "3", "4", "5", "6", "7", "8", "9", ":", ";", "<", "=", ">", "?",
     "@", "A", "B", "C", "D", "E", "F", "G", "H", "I", "J", "K", "L", "M", "N", "O",
     "P", "Q", "R", "S", "T", "U", "V", "W", "X", "Y", "Z", "[", "\\", "]", "^", "_",
     "grave", "a", "b", "c", "d", "e", "f", "g", "h", "i", "j", "k", "l", "m", "n", "o",
     "p", "q", "r", "s", "t", "u", "v", "w", "x", "y", "z", "{", "|", "}", "~" >>

\* The byte of a character
Code(c) == 31 + (CHOOSE k \in 1..Len(Ascii) : Ascii[k] = c)

\* The alphabet of base64.StdEncoding
encodeStd ==
  << "A", "B", "C", "D", "E", "F", "G", "H", "I", "J", "K", "L", "M", "N", "O", "P",
     "Q", "R", "S", "T", "U", "V", "W", "X", "Y", "Z", "a", "b", "c", "d", "e", "f",
     "g", "h", "i", "j", "k", "l", "m", "n", "o", "p", "q", "r", "s", "t", "u", "v",
     "w", "x", "y", "z", "0", "1", "2", "3", "4", "5", "6", "7", "8", "9", "+", "/" >>

Enc(n) == encodeStd[n + 1]

\* base64.StdEncoding.EncodeToString over the bytes of src after position i:
\* three bytes give four characters, and a last group of one or two bytes is
\* padded with =
RECURSIVE EncodeFrom(_, _)
EncodeFrom(src, i) ==
  IF Len(src) - i = 0 THEN <<>>
  ELSE IF Len(src) - i = 1
  THEN <<Enc(src[i + 1] \div 4), Enc((src[i + 1] % 4) * 16), "=", "=">>
  ELSE IF Len(src) - i = 2
  THEN <<Enc(src[i + 1] \div 4), Enc((src[i + 1] % 4) * 16 + src[i + 2] \div 16),
         Enc((src[i + 2] % 16) * 4), "=">>
  ELSE <<Enc(src[i + 1] \div 4), Enc((src[i + 1] % 4) * 16 + src[i + 2] \div 16),
         Enc((src[i + 2] % 16) * 4 + src[i + 3] \div 64), Enc(src[i + 3] % 64)>>
         \o EncodeFrom(src, i + 3)

EncodeToString(src) == EncodeFrom(src, 0)

Bytes(str) == [k \in 1..Len(str) |-> Code(str[k])]

\* An Auth that encodes the password before the username
AuthPasswordFirst(username, passwd) ==
  [Auth |-> EncodeToString(Bytes(passwd \o <<":">> \o username))]

\* Auth{Auth: base64(fmt.Sprintf("%s:%s", username, passwd))}
Auth(username, passwd) == [Auth |-> EncodeToString(Bytes(username \o <<":">> \o passwd))]

\* New(): an empty map
NewOci == <<>>

\* WithAuth that keeps the entry a hostname already has
WithAuthKeepFirst(m, hostname, username, password) ==
  IF password.err THEN [m |-> m, err |-> TRUE]
  ELSE [m |-> [h \in DOMAIN m \cup {hostname} |->
                 IF h \in DOMAIN m THEN m[h] ELSE Auth(username, password.value)],
        err |-> FALSE]

\* WithAuth that assigns a new map that holds the one entry
WithAuthReplace(m, hostname, username, password) ==
  IF password.err THEN [m |-> m, err |-> TRUE]
  ELSE [m |-> [h \in {hostname} |-> Auth(username, password.value)], err |-> FALSE]

\* OciLogin.WithAuth
WithAuthResult(m, hostname, username, password) ==
  IF password.err THEN [m |-> m, err |-> TRUE]
  ELSE [m |-> [h \in DOMAIN m \cup {hostname} |->
                 IF h = hostname THEN Auth(username, password.value) ELSE m[h]],
        err |-> FALSE]

\* WithAuth on a map that every instance shares
WithAuthShared(i, hostname, username, password) ==
  LET r == WithAuthResult(oci[i], hostname, username, password)
  IN /\ oci' = [j \in DOMAIN oci |-> r.m]
     /\ hist' = IF r.err THEN hist
                ELSE Recorded(hist, i, Contribution("WithAuth",
                                         <<hostname, username, password.value>>))
     /\ olast' = [olast EXCEPT ![i] = Call("WithAuth", <<hostname, username, password>>,
                                           r.err, oci[i], NoName, <<>>)]
     /\ UNCHANGED <<netrc, last, input>>

WithAuth(i, hostname, username, password) ==
  LET r == WithAuthResult(oci[i], hostname, username, password)
  IN /\ oci' = [oci EXCEPT ![i] = r.m]
     /\ hist' = IF r.err THEN hist
                ELSE Recorded(hist, i, Contribution("WithAuth",
                                         <<hostname, username, password.value>>))
     /\ olast' = [olast EXCEPT ![i] = Call("WithAuth", <<hostname, username, password>>,
                                           r.err, oci[i], NoName, <<>>)]
     /\ UNCHANGED <<netrc, last, input>>

\* The order of Go strings
RECURSIVE Less(_, _)
Less(a, b) ==
  IF b = <<>> THEN FALSE
  ELSE IF a = <<>> THEN TRUE
  ELSE IF Head(a) # Head(b) THEN Code(Head(a)) < Code(Head(b))
  ELSE Less(Tail(a), Tail(b))

\* The keys of a map in the order encoding/json writes them
RECURSIVE SortedKeys(_)
SortedKeys(keys) ==
  IF keys = {} THEN <<>>
  ELSE LET k == CHOOSE h \in keys : \A o \in keys \ {h} : Less(h, o)
       IN <<k>> \o SortedKeys(keys \ {k})

\* A JSON string: quotes, and the escapes encoding/json writes
RECURSIVE Escaped(_)
Escaped(str) ==
  IF str = <<>> THEN <<>>
  ELSE (IF Head(str) = "\"" THEN <<"\\", "\"">>
        ELSE IF Head(str) = "\\" THEN <<"\\", "\\">>
        ELSE IF Head(str) = "<" THEN <<"\\", "u", "0", "0", "3", "c">>
        ELSE IF Head(str) = ">" THEN <<"\\", "u", "0", "0", "3", "e">>
        ELSE IF Head(str) = "&" THEN <<"\\", "u", "0", "0", "2", "6">>
        ELSE <<Head(str)>>) \o Escaped(Tail(str))

Quote(str) == <<"\"">> \o Escaped(str) \o <<"\"">>

RECURSIVE MarshalEntries(_, _)
MarshalEntries(m, keys) ==
  IF keys = <<>> THEN <<>>
  ELSE Quote(Head(keys)) \o <<":", "{">> \o Quote(<<"a", "u", "t", "h">>) \o <<":">>
         \o Quote(m[Head(keys)].Auth) \o <<"}">>
         \o (IF Len(keys) > 1 THEN <<",">> ELSE <<>>) \o MarshalEntries(m, Tail(keys))

\* Marshal that writes a map without entries as null
MarshalNull(m) ==
  <<"{">> \o Quote(<<"a", "u", "t", "h", "s">>) \o <<":">>
    \o (IF DOMAIN m = {} THEN <<"n", "u", "l", "l">>
        ELSE <<"{">> \o MarshalEntries(m, SortedKeys(DOMAIN m)) \o <<"}">>) \o <<"}">>

\* json.Marshal(m.Config)
Marshal(m) ==
  <<"{">> \o Quote(<<"a", "u", "t", "h", "s">>) \o <<":", "{">>
    \o MarshalEntries(m, SortedKeys(DOMAIN m)) \o <<"}", "}">>

\* OciLogin.AsConfig
AsConfig(i) ==
  /\ olast' = [olast EXCEPT ![i] = Call("AsConfig", <<>>, FALSE, oci[i], NoName,
                                        Marshal(oci[i]))]
  /\ UNCHANGED <<netrc, hist, last, oci, input>>

ociPrefix == << "o", "c", "i", "-", "c", "o", "n", "f", "i", "g", "-" >>


\* The name and the content of the secret OciLogin.AsSecret sets
OciSecret(m, name) ==
  [name |-> IF name = <<>> THEN [literal |-> ociPrefix, hex |-> Md5Hex(Marshal(m))]
            ELSE [literal |-> name, hex |-> <<>>],
   contents |-> Marshal(m)]

OciAsSecret(i, name) ==
  LET s == OciSecret(oci[i], name)
  IN /\ olast' = [olast EXCEPT ![i] = Call("AsSecret", name, FALSE, oci[i], s.name,
                                          s.contents)]
     /\ UNCHANGED <<netrc, hist, last, oci, input>>

(***************************************************************************)
(* The original Netrc module (src/netrc), without a format: its Config     *)
(* holds the records only.  An instance of it lives in netrc, last and     *)
(* hist like an instance of the format-aware module.                       *)
(***************************************************************************)
\* Login.String of the original module
LoginString(l) ==
  machineIdent \o <<SP>> \o l.Machine \o <<SP>> \o loginIdent \o <<SP>> \o l.Username
    \o <<SP>> \o passwordIdent \o <<SP>> \o l.Password \o <<LF>>

RECURSIVE WriteOriginal(_)
WriteOriginal(logins) ==
  IF logins = <<>> THEN <<>> ELSE LoginString(Head(logins)) \o WriteOriginal(Tail(logins))

\* AutoLogin.String of the original module without strings.TrimSpace
OriginalStringNoTrim(a) == WriteOriginal(a.Logins)

\* AutoLogin.String of the original module
OriginalString(a) == TrimSpace(WriteOriginal(a.Logins))

\* New of the original module
OriginalNew == [Logins |-> <<>>]

\* Netrc.WithLogin of the original module: the username is a plain string
OriginalWithLoginResult(m, machine, username, password) ==
  IF password.err THEN [m |-> m, err |-> TRUE]
  ELSE [m |-> [Logins |-> Append(m.Logins, Login(machine, username, password.value))],
        err |-> FALSE]

OriginalWithLogin(i, machine, username, password) ==
  LET r == OriginalWithLoginResult(netrc[i], machine, username, password)
  IN /\ Len(netrc[i].Logins) < MaxLogins
     /\ netrc' = [netrc EXCEPT ![i] = r.m]
     /\ hist' = [hist EXCEPT ![i] = IF r.err THEN @
                                    ELSE Append(@, Contribution("WithLogin",
                                                     <<Login(machine, username,
                                                             password.value)>>))]
     /\ last' = [last EXCEPT ![i] = Call("WithLogin",
                                         <<machine, Handle(username, FALSE), password>>,
                                         r.err, netrc[i].Logins, NoName, <<>>)]
     /\ UNCHANGED <<oci, olast, input>>

\* Netrc.AsFile of the original module
OriginalAsFile(i) ==
  /\ last' = [last EXCEPT ![i] = Call("AsFile", <<>>, FALSE, netrc[i].Logins, NoName,
                                      OriginalString(netrc[i]))]
  /\ UNCHANGED <<netrc, hist, oci, olast, input>>

\* The name and the content of the secret Netrc.AsSecret of the original
\* module sets
OriginalSecret(m, name) ==
  [name |-> IF name = <<>>
            THEN [literal |-> netrcPrefix, hex |-> Md5Hex(OriginalString(m))]
            ELSE [literal |-> name, hex |-> <<>>],
   contents |-> OriginalString(m)]

OriginalAsSecret(i, name) ==
  /\ last' = [last EXCEPT ![i] = Call("AsSecret", name, FALSE, netrc[i].Logins,
                                      OriginalSecret(netrc[i], name).name,
                                      OriginalSecret(netrc[i], name).contents)]
  /\ UNCHANGED <<netrc, hist, oci, olast, input>>

(***************************************************************************)
(* Inputs                                                                  *)
(***************************************************************************)
github == <<"g", "i", "t", "h", "u", "b", ".", "c", "o", "m">>
gitlab == <<"g", "i", "t", "l", "a", "b", ".", "c", "o", "m">>
batman == <<"b", "a", "t", "m", "a", "n">>
joker == <<"j", "o", "k", "e", "r">>
bane == <<"b", "a", "n", "e">>
gotham == <<"g", "o", "t", "h", "a", "m">>
arkam == <<"a", "r", "k", "a", "m">>

Broken == Handle(<<>>, TRUE)

\* The arguments of the WithLogin calls of the main specification
LoginArgs ==
  { <<github, Handle(batman, FALSE), Handle(gotham, FALSE)>>,
    <<gitlab, Handle(joker, FALSE), Handle(arkam, FALSE)>>,
    <<github, Handle(batman, FALSE), Broken>>,
    <<gitlab, Broken, Handle(arkam, FALSE)>> }

\* The content of Tests.WithFile: one triple on a line, one over three lines
MixedContent(eol) ==
  machineIdent \o <<SP>> \o github \o <<SP>> \o loginIdent \o <<SP>> \o batman
    \o <<SP>> \o passwordIdent \o <<SP>> \o gotham \o eol
    \o machineIdent \o <<SP>> \o gitlab \o eol
    \o loginIdent \o <<SP>> \o joker \o eol
    \o passwordIdent \o <<SP>> \o arkam

\* The content of Tests.WithFileInvalid
InvalidContent ==
  machineIdent \o <<SP>> \o github \o <<SP>> \o passwordIdent \o <<SP>> \o arkam
    \o <<SP>> \o loginIdent \o <<SP>> \o bane

\* The files of the WithFile calls of the main specification
ConfigFiles ==
  { Handle(MixedContent(<<LF>>), FALSE),
    Handle(MixedContent(<<CR, LF>>), FALSE),
    Handle(InvalidContent, FALSE),
    Handle(compact(Login(gitlab, joker, arkam)) \o InvalidContent, FALSE),
    Handle(<<>>, FALSE),
    Handle(<<>>, TRUE) }

SecretNames == {<<>>, <<"m", "y">>}

NoInput == [kind |-> "none"]

InitNetrc(ids, formats) ==
  /\ netrc \in [ids -> {New(f) : f \in formats}]
  /\ hist = [i \in ids |-> <<>>]
  /\ last = [i \in ids |-> Call("New", <<>>, FALSE, <<>>, NoName, <<>>)]
  /\ oci = <<>>
  /\ olast = <<>>

Init ==
  /\ InitNetrc({1}, {Compact, Full})
  /\ input = NoInput

Next ==
  \/ \E i \in DOMAIN netrc, a \in LoginArgs : WithLogin(i, a[1], a[2], a[3])
  \/ \E i \in DOMAIN netrc, cfg \in ConfigFiles : WithFile(i, cfg)
  \/ \E i \in DOMAIN netrc : AsFile(i)
  \/ \E i \in DOMAIN netrc, name \in SecretNames : AsSecret(i, name)

Spec == Init /\ [][Next]_vars
(***************************************************************************)
(* Round trip: instance 1 is built by WithLogin calls and rendered, and    *)
(* the file is ingested by the fresh instance 2.                           *)
(***************************************************************************)
MaxRecords == 2

x == <<"x">>
y == <<"y">>
z == <<"z">>

CleanValues == {x, y}

\* Values that are empty or hold a whitespace character
DirtyValues == {<<>>, <<"a", SP, "b">>, <<"a", TAB, "b">>, <<"a", LF>>, <<TAB, "a">>}

RoundTripArgs ==
  {<<m, Handle(u, FALSE), Handle(z, FALSE)>> : m \in CleanValues, u \in CleanValues}
    \cup {<<d, Handle(x, FALSE), Handle(y, FALSE)>> : d \in DirtyValues}
    \cup {<<x, Handle(d, FALSE), Handle(y, FALSE)>> : d \in DirtyValues}
    \cup {<<x, Handle(y, FALSE), Handle(d, FALSE)>> : d \in DirtyValues}
    \cup {<<github, Handle(batman, FALSE), Handle(gotham, FALSE)>>}

InitRoundTrip ==
  /\ InitNetrc({1, 2}, {Compact, Full})
  /\ input = NoInput

NextRoundTrip ==
  \/ \E a \in RoundTripArgs :
       /\ last[2].op = "New"
       /\ Len(netrc[1].Logins) < MaxRecords
       /\ WithLogin(1, a[1], a[2], a[3])
  \/ last[2].op = "New" /\ AsFile(1)
  \/ /\ last[1].op = "AsFile" /\ ~last[1].err
     /\ last[2].op = "New"
     /\ WithFile(2, Handle(last[1].contents, FALSE))

SpecRoundTrip == InitRoundTrip /\ [][NextRoundTrip]_vars

(***************************************************************************)
(* Ingestion: a fresh instance ingests one document.  A document is a text *)
(* with the way it was written.                                            *)
(***************************************************************************)
MaxRun == 2
MaxTail == 1

Keywords == {"machine", "login", "password"}

Ident(k) ==
  IF k = "machine" THEN machineIdent ELSE IF k = "login" THEN loginIdent ELSE passwordIdent

\* The value a document writes for a keyword
ValueOf(k) == IF k = "machine" THEN x ELSE IF k = "login" THEN y ELSE z

RECURSIVE Concat(_)
Concat(ss) == IF ss = <<>> THEN <<>> ELSE Head(ss) \o Concat(Tail(ss))

\* Non-empty runs of at most n separators: space, tab, \n or \r\n
Runs(n) ==
  {Concat(r) : r \in UNION {[1..k -> {<<SP>>, <<TAB>>, <<LF>>, <<CR, LF>>}] : k \in 1..n}}

\* A record written machine <M> login <U> password <P>, keyword and value
\* separated by a, fields by b
WriteRecord(l, a, b) ==
  machineIdent \o a \o l.Machine \o b \o loginIdent \o a \o l.Username \o b
    \o passwordIdent \o a \o l.Password

RECURSIVE WriteRecords(_, _, _, _)
WriteRecords(recs, a, b, c) ==
  IF Len(recs) = 1 THEN WriteRecord(recs[1], a, b)
  ELSE WriteRecord(recs[1], a, b) \o c \o WriteRecords(Tail(recs), a, b, c)

LayoutRecords ==
  LET ls == {Login(x, y, z), Login(y, x, x)}
  IN {<<Login(x, y, z)>>} \cup {<<l[1], l[2]>> : l \in {k \in ls \X ls : k[1] # k[2]}}

LayoutDocuments ==
  {[kind |-> "layout", recs |-> recs, text |-> WriteRecords(recs, a, b, c)] :
     recs \in LayoutRecords,
     a \in Runs(MaxRun), b \in Runs(MaxRun), c \in {<<SP>>, <<LF>>, <<CR, LF>>}}

\* The orders of the three fields other than machine, login, password
Permuted ==
  {p \in [1..3 -> Keywords] :
     /\ \A j, k \in 1..3 : j # k => p[j] # p[k]
     /\ p # <<"machine", "login", "password">>}

\* What may follow the first triple: up to n further fields
Tails(n) ==
  {Concat([j \in 1..Len(t) |-> <<SP>> \o Ident(t[j]) \o <<SP>> \o ValueOf(t[j])]) :
     t \in UNION {[1..k -> Keywords] : k \in 0..n}}

PermutedDocuments ==
  {[kind |-> "permuted", recs |-> <<>>,
    text |-> Ident(p[1]) \o s[1] \o ValueOf(p[1]) \o s[2] \o Ident(p[2]) \o s[3]
               \o ValueOf(p[2]) \o s[4] \o Ident(p[3]) \o s[5] \o ValueOf(p[3]) \o t] :
     p \in Permuted, s \in [1..5 -> {<<SP>>, <<TAB>>, <<LF>>}], t \in Tails(MaxTail)}

\* A triple that is out of order, incomplete or malformed
BadTriples ==
  {Ident(p[1]) \o <<SP>> \o ValueOf(p[1]) \o <<SP>> \o Ident(p[2]) \o <<SP>>
     \o ValueOf(p[2]) \o <<SP>> \o Ident(p[3]) \o <<SP>> \o ValueOf(p[3]) : p \in Permuted}
    \cup { machineIdent,
           machineIdent \o <<SP>> \o x,
           machineIdent \o <<SP>> \o x \o <<SP>> \o loginIdent \o <<SP>> \o y,
           machineIdent \o <<SP>> \o x \o <<SP>> \o loginIdent \o <<SP>> \o y \o <<SP>>
             \o passwordIdent,
           machineIdent \o <<SP>> \o x \o <<SP>> \o passwordIdent \o <<SP>> \o z,
           machineIdent \o x \o <<SP>> \o loginIdent \o <<SP>> \o y \o <<SP>>
             \o passwordIdent \o <<SP>> \o z,
           <<"h", "o", "s", "t">> \o <<SP>> \o x \o <<SP>> \o loginIdent \o <<SP>> \o y
             \o <<SP>> \o passwordIdent \o <<SP>> \o z }

\* Well-formed triples followed by a bad one
StrictDocuments ==
  {[kind |-> "strict", recs |-> recs,
    text |-> WriteRecords(recs, <<SP>>, b, <<LF>>) \o <<LF>> \o bad] :
     recs \in LayoutRecords, b \in {<<SP>>, <<LF>>}, bad \in BadTriples}

\* What a text may start with other than the machine keyword: nothing,
\* whitespace, or other characters
Heads == {<<>>} \cup Runs(MaxRun) \cup {<<"#">>, <<"#", SP>>, x \o <<SP>>}

\* Texts from whose start no triple can be matched: a head alone, or a
\* non-empty head before well-formed triples
HeadlessDocuments ==
  {[kind |-> "headless", recs |-> <<>>, text |-> h] : h \in Heads}
    \cup {[kind |-> "headless", recs |-> <<>>,
           text |-> h \o WriteRecords(recs, <<SP>>, <<SP>>, <<LF>>)] :
            h \in Heads \ {<<>>}, recs \in LayoutRecords}

Documents ==
  LayoutDocuments \cup PermutedDocuments \cup StrictDocuments \cup HeadlessDocuments

InitIngest ==
  /\ InitNetrc({1}, {Compact})
  /\ input \in Documents

NextIngest ==
  /\ last[1].op = "New"
  /\ WithFile(1, Handle(input.text, FALSE))

SpecIngest == InitIngest /\ [][NextIngest]_vars

(***************************************************************************)
(* Secrets: two instances of one module, built and rendered as secrets.    *)
(***************************************************************************)
dockerIo == << "d", "o", "c", "k", "e", "r", ".", "i", "o" >>

ghcrIo == << "g", "h", "c", "r", ".", "i", "o" >>

quayIo == << "q", "u", "a", "y", ".", "i", "o" >>

penguin == << "p", "e", "n", "g", "u", "i", "n" >>

dockerPassword ==
  << "c", "8", "H", "9", "6", "Y", "D", "R", "E", "N", "i", "b", "M", "Q", "=", "=" >>

ghcrPassword ==
  << "6", "V", "X", "z", "O", "e", "y", "g", "B", "8", "K", "r", "s", "Q", "=", "=" >>

quayPassword ==
  << "X", "O", "s", "1", "c", "D", "j", "k", "Z", "T", "H", "C", "P", "A", "=", "=" >>

\* The arguments of WithAuth calls
AuthArgs ==
  { <<dockerIo, batman, Handle(dockerPassword, FALSE)>>,
    <<dockerIo, joker, Handle(ghcrPassword, FALSE)>>,
    <<ghcrIo, joker, Handle(ghcrPassword, FALSE)>>,
    <<ghcrIo, batman, Broken>> }

InitOci(ids) ==
  /\ oci = [i \in ids |-> NewOci]
  /\ olast = [i \in ids |-> Call("New", <<>>, FALSE, NewOci, NoName, <<>>)]
  /\ netrc = <<>>
  /\ hist = <<>>
  /\ last = <<>>

\* The arguments of the WithLogin calls of the secrets: the records of the
\* tests and a password that ends in a space
SecretLoginArgs ==
  { <<github, Handle(batman, FALSE), Handle(gotham, FALSE)>>,
    <<gitlab, Handle(joker, FALSE), Handle(arkam, FALSE)>>,
    <<github, Handle(batman, FALSE), Handle(gotham \o <<SP>>, FALSE)>> }

\* The records of the secrets are distinct: logins holds the record l
Holds(logins, l) == \E k \in 1..Len(logins) : logins[k] = l

InitSecret ==
  /\ InitNetrc({1, 2}, {Compact, Full}) \/ InitOci({1, 2})
  /\ input = NoInput

NextSecret ==
  \/ \E i \in DOMAIN netrc, a \in SecretLoginArgs :
       /\ Len(netrc[i].Logins) < MaxRecords
       /\ ~Holds(netrc[i].Logins, Login(a[1], a[2].value, a[3].value))
       /\ WithLogin(i, a[1], a[2], a[3])
  \/ \E i \in DOMAIN netrc : AsFile(i)
  \/ \E i \in DOMAIN netrc, name \in SecretNames : AsSecret(i, name)
  \/ \E i \in DOMAIN oci, a \in AuthArgs : WithAuth(i, a[1], a[2], a[3])
  \/ \E i \in DOMAIN oci : AsConfig(i)
  \/ \E i \in DOMAIN oci, name \in SecretNames : OciAsSecret(i, name)

SpecSecret == InitSecret /\ [][NextSecret]_vars

(***************************************************************************)
(* Modules: one instance of either module, in any format New accepts,      *)
(* built with arguments and files that fail to resolve or are empty, and   *)
(* rendered.  hist[i] records the successful WithAuth calls of a registry  *)
(* instance.                                                               *)
(***************************************************************************)
MaxAuths == 3

\* The arguments of WithLogin: those of the main specification, an empty
\* machine and an empty username
ModuleLoginArgs ==
  LoginArgs \cup { <<<<>>, Handle(batman, FALSE), Handle(gotham, FALSE)>>,
                   <<github, Handle(<<>>, FALSE), Handle(gotham, FALSE)>> }

\* expectedAuth of the tests of oci-login
expectedAuth ==
  << "{", "\"", "a", "u", "t", "h", "s", "\"", ":", "{", "\"", "d", "o", "c", "k", "e",
     "r", ".", "i", "o", "\"", ":", "{", "\"", "a", "u", "t", "h", "\"", ":", "\"",
     "Y", "m", "F", "0", "b", "W", "F", "u", "O", "m", "M", "4", "S", "D", "k", "2",
     "W", "U", "R", "S", "R", "U", "5", "p", "Y", "k", "1", "R", "P", "T", "0", "=",
     "\"", "}", ",", "\"", "g", "h", "c", "r", ".", "i", "o", "\"", ":", "{", "\"",
     "a", "u", "t", "h", "\"", ":", "\"", "a", "m", "9", "r", "Z", "X", "I", "6", "N",
     "l", "Z", "Y", "e", "k", "9", "l", "e", "W", "d", "C", "O", "E", "t", "y", "c",
     "1", "E", "9", "P", "Q", "=", "=", "\"", "}", ",", "\"", "q", "u", "a", "y", ".",
     "i", "o", "\"", ":", "{", "\"", "a", "u", "t", "h", "\"", ":", "\"", "c", "G",
     "V", "u", "Z", "3", "V", "p", "b", "j", "p", "Y", "T", "3", "M", "x", "Y", "0",
     "R", "q", "a", "1", "p", "U", "S", "E", "N", "Q", "Q", "T", "0", "9", "\"", "}",
     "}", "}" >>

\* The arguments of WithAuth: those of newOciLogin, a second user of
\* docker.io, an empty hostname and a password that fails to resolve
RegistryArgs ==
  { <<dockerIo, batman, Handle(dockerPassword, FALSE)>>,
    <<ghcrIo, joker, Handle(ghcrPassword, FALSE)>>,
    <<quayIo, penguin, Handle(quayPassword, FALSE)>>,
    <<dockerIo, joker, Handle(ghcrPassword, FALSE)>>,
    <<<<>>, batman, Handle(dockerPassword, FALSE)>>,
    <<ghcrIo, batman, Broken>> }

InitRegistry(ids) ==
  /\ oci = [i \in ids |-> NewOci]
  /\ olast = [i \in ids |-> Call("New", <<>>, FALSE, NewOci, NoName, <<>>)]
  /\ hist = [i \in ids |-> <<>>]
  /\ netrc = <<>>
  /\ last = <<>>

\* A format that is neither compact nor full: the zero value of Format
NoFormat == ""

InitModules ==
  /\ InitNetrc({1}, {Compact, Full, NoFormat}) \/ InitRegistry({1})
  /\ input = NoInput

NextModules ==
  \/ \E i \in DOMAIN netrc, a \in ModuleLoginArgs :
       Len(netrc[i].Logins) < MaxRecords /\ WithLogin(i, a[1], a[2], a[3])
  \/ \E i \in DOMAIN netrc, cfg \in ConfigFiles : WithFile(i, cfg)
  \/ \E i \in DOMAIN netrc : AsFile(i)
  \/ \E i \in DOMAIN netrc, name \in SecretNames : AsSecret(i, name)
  \/ \E i \in DOMAIN oci, a \in RegistryArgs :
       Len(hist[i]) < MaxAuths /\ WithAuth(i, a[1], a[2], a[3])
  \/ \E i \in DOMAIN oci : AsConfig(i)
  \/ \E i \in DOMAIN oci, name \in SecretNames : OciAsSecret(i, name)

SpecModules == InitModules /\ [][NextModules]_vars

(***************************************************************************)
(* Orders: two registry instances, each given some of the same WithAuth    *)
(* calls, each call at most once, in an order of its own, and rendered.    *)
(***************************************************************************)
OrderArgs ==
  { <<dockerIo, batman, Handle(dockerPassword, FALSE)>>,
    <<ghcrIo, joker, Handle(ghcrPassword, FALSE)>>,
    <<dockerIo, joker, Handle(ghcrPassword, FALSE)>> }

\* The history h holds the call with the arguments a
Called(h, a) == \E k \in 1..Len(h) : h[k].recs = <<a[1], a[2], a[3].value>>

InitOrder ==
  /\ InitRegistry({1, 2})
  /\ input = NoInput

NextOrder ==
  \/ \E i \in DOMAIN oci, a \in OrderArgs :
       /\ Len(hist[i]) < MaxAuths
       /\ ~Called(hist[i], a)
       /\ WithAuth(i, a[1], a[2], a[3])
  \/ \E i \in DOMAIN oci : AsConfig(i)
  \/ \E i \in DOMAIN oci : OciAsSecret(i, <<>>)

SpecOrder == InitOrder /\ [][NextOrder]_vars

(***************************************************************************)
(* Canonical texts: a fresh instance ingests the rendering of a list of    *)
(* records in one of the formats and renders it.                           *)
(***************************************************************************)
CanonicalRecords ==
  {Login(m, u, z) : m \in CleanValues, u \in CleanValues}
    \cup {Login(github, batman, gotham), Login(machineIdent, loginIdent, passwordIdent)}

\* The non-empty lists of at most n records
CanonicalLists(n) == UNION {[1..k -> CanonicalRecords] : k \in 1..n}

CanonicalDocuments ==
  {[kind |-> "canonical", recs |-> recs, format |-> f,
    text |-> String(AutoLogin(recs, f))] :
     recs \in CanonicalLists(MaxRecords), f \in {Compact, Full}}

InitCanonical ==
  /\ InitNetrc({1}, {Compact, Full})
  /\ input \in CanonicalDocuments

NextCanonical ==
  \/ last[1].op = "New" /\ WithFile(1, Handle(input.text, FALSE))
  \/ last[1].op = "WithFile" /\ AsFile(1)

SpecCanonical == InitCanonical /\ [][NextCanonical]_vars

(***************************************************************************)
(* Two implementations: instance 1 of the format-aware module in the       *)
(* compact format and instance 2 of the original module, which is given    *)
(* the successful WithLogin calls of instance 1 in their order.            *)
(***************************************************************************)
\* The arguments of the WithLogin calls: those of the secrets, an empty
\* machine and a password that fails to resolve
OriginalArgs ==
  SecretLoginArgs \cup { <<<<>>, Handle(batman, FALSE), Handle(gotham, FALSE)>>,
                          <<github, Handle(batman, FALSE), Broken>> }

\* Instance 2 is given the call a next: it fails, or it is the next
\* successful call of instance 1
Replayed(a) ==
  \/ a[3].err
  \/ /\ Len(netrc[2].Logins) < Len(netrc[1].Logins)
     /\ Login(a[1], a[2].value, a[3].value) = netrc[1].Logins[Len(netrc[2].Logins) + 1]

InitOriginal ==
  /\ netrc = <<New(Compact), OriginalNew>>
  /\ hist = <<<<>>, <<>>>>
  /\ last = [i \in {1, 2} |-> Call("New", <<>>, FALSE, <<>>, NoName, <<>>)]
  /\ oci = <<>>
  /\ olast = <<>>
  /\ input = NoInput

NextOriginal ==
  \/ \E a \in OriginalArgs :
       Len(netrc[1].Logins) < MaxRecords /\ WithLogin(1, a[1], a[2], a[3])
  \/ AsFile(1)
  \/ \E name \in SecretNames : AsSecret(1, name)
  \/ \E a \in OriginalArgs : Replayed(a) /\ OriginalWithLogin(2, a[1], a[2].value, a[3])
  \/ OriginalAsFile(2)
  \/ \E name \in SecretNames : OriginalAsSecret(2, name)

SpecOriginal == InitOriginal /\ [][NextOriginal]_vars

(***************************************************************************)
(* Properties                                                              *)
(***************************************************************************)
RECURSIVE Flatten(_)
Flatten(h) == IF h = <<>> THEN <<>> ELSE Head(h).recs \o Flatten(Tail(h))

\* The whitespace-separated words of a text
RECURSIVE Fields(_)
Fields(s) ==
  LET from == Scan(s, 0, WhiteSpace, TRUE)
      to == Scan(s, from, WhiteSpace, FALSE)
  IN IF from = Len(s) THEN <<>>
     ELSE <<SubSeq(s, from + 1, to)>> \o Fields(Drop(s, to))

RECURSIVE Words(_)
Words(logins) ==
  IF logins = <<>> THEN <<>>
  ELSE <<machineIdent, Head(logins).Machine, loginIdent, Head(logins).Username,
         passwordIdent, Head(logins).Password>> \o Words(Tail(logins))

Rendered(c) == c.op \in {"AsFile", "AsSecret"} /\ ~c.err

\* C2: the records of an instance are the concatenation, in call order, of
\* what each successful WithLogin and WithFile call contributed, duplicates
\* kept, and a rendering in either format lists their fields in that order
OrderPreserved ==
  \A i \in DOMAIN netrc :
    /\ netrc[i].Logins = Flatten(hist[i])
    /\ Rendered(last[i]) => Fields(last[i].contents) = Words(Flatten(hist[i]))

\* A rendering of records added by WithFile and WithLogin calls, the same
\* triple twice and gitlab.com before github.com
OrderPreservedWitness ==
  \E i \in DOMAIN netrc :
    /\ Rendered(last[i])
    /\ \E j, k \in 1..Len(hist[i]) : hist[i][j].op = "WithFile" /\ hist[i][k].op = "WithLogin"
    /\ \E j, k \in 1..Len(netrc[i].Logins) :
         j < k /\ netrc[i].Logins[j] = netrc[i].Logins[k]
    /\ \E j, k \in 1..Len(netrc[i].Logins) :
         j < k /\ netrc[i].Logins[j].Machine = gitlab /\ netrc[i].Logins[k].Machine = github

\* C4: when WithFile returns an error, for an unreadable file or a failed
\* parse, the instance holds the records it held before the call
IngestAtomic ==
  \A i \in DOMAIN netrc :
    (last[i].op = "WithFile" /\ last[i].err) =>
      netrc[i].Logins = last[i].before /\ netrc[i].Logins = Flatten(hist[i])

\* A failed parse on an instance that holds two records
IngestAtomicWitness ==
  \E i \in DOMAIN netrc :
    /\ last[i].op = "WithFile" /\ last[i].err /\ ~last[i].arg.err
    /\ last[i].arg.value = InvalidContent
    /\ Len(netrc[i].Logins) >= 2

\* C8: a file with a triple on one line and a triple over three lines is
\* ingested as two records, in document order, after the records held, and
\* a following WithLogin adds a third record after them
MixedRecords == <<Login(github, batman, gotham), Login(gitlab, joker, arkam)>>

MixedFiles == {Handle(MixedContent(<<LF>>), FALSE), Handle(MixedContent(<<CR, LF>>), FALSE)}

MixedIngest ==
  \A i \in DOMAIN netrc :
    /\ (last[i].op = "WithFile" /\ last[i].arg \in MixedFiles) =>
         ~last[i].err /\ netrc[i].Logins = last[i].before \o MixedRecords
    /\ (/\ last[i].op = "WithLogin" /\ ~last[i].err
        /\ Len(hist[i]) >= 2
        /\ hist[i][Len(hist[i]) - 1] = Contribution("WithFile", MixedRecords)) =>
         netrc[i].Logins
           = Flatten(SubSeq(hist[i], 1, Len(hist[i]) - 2)) \o MixedRecords
               \o <<Login(last[i].arg[1], last[i].arg[2].value, last[i].arg[3].value)>>

\* WithLogin after the mixed file was ingested into an instance that held a record
MixedIngestWitness ==
  \E i \in DOMAIN netrc :
    /\ last[i].op = "WithLogin" /\ ~last[i].err
    /\ Len(hist[i]) = 3
    /\ hist[i][2] = Contribution("WithFile", MixedRecords)
    /\ netrc[i].Logins = hist[i][1].recs \o MixedRecords \o hist[i][3].recs
    /\ Len(netrc[i].Logins) = 4

CleanValue(v) == v # <<>> /\ \A k \in 1..Len(v) : ~IsWhitespace(v[k])

CleanLogin(l) == CleanValue(l.Machine) /\ CleanValue(l.Username) /\ CleanValue(l.Password)

CleanLogins(logins) == \A k \in 1..Len(logins) : CleanLogin(logins[k])

\* C1 as claimed: the file rendered from any configuration built by
\* WithLogin calls parses to the records the configuration holds
RoundTrip ==
  last[2].op = "WithFile" => ~last[2].err /\ netrc[2].Logins = netrc[1].Logins

\* C1, amended: the round trip holds for a configuration with at least one
\* record whose values are non-empty and hold no whitespace character
RoundTripClean ==
  (/\ last[2].op = "WithFile"
   /\ netrc[1].Logins # <<>>
   /\ CleanLogins(netrc[1].Logins)) =>
    ~last[2].err /\ netrc[2].Logins = netrc[1].Logins

\* Two different clean records, written in the full format and read back
RoundTripWitness ==
  /\ last[2].op = "WithFile" /\ ~last[2].err
  /\ netrc[1].Format = Full
  /\ Len(netrc[1].Logins) = 2 /\ netrc[1].Logins[1] # netrc[1].Logins[2]
  /\ CleanLogins(netrc[1].Logins)
  /\ netrc[2].Logins = netrc[1].Logins

\* The lines of a rendering: one per record, or three per record
RECURSIVE Lines(_, _)
Lines(logins, format) ==
  IF logins = <<>> THEN <<>>
  ELSE LET l == Head(logins)
           m == machineIdent \o <<SP>> \o l.Machine
           u == loginIdent \o <<SP>> \o l.Username
           p == passwordIdent \o <<SP>> \o l.Password
       IN (IF format = Compact THEN <<m \o <<SP>> \o u \o <<SP>> \o p>> ELSE <<m, u, p>>)
            \o Lines(Tail(logins), format)

\* Lines with exactly one newline between consecutive lines and none at the end
RECURSIVE JoinLines(_)
JoinLines(lines) ==
  IF Len(lines) = 1 THEN lines[1] ELSE lines[1] \o <<LF>> \o JoinLines(Tail(lines))

\* 'machine github.com login batman password gotham'
ExpectedCompact ==
  << "m", "a", "c", "h", "i", "n", "e", " ", "g", "i", "t", "h", "u", "b", ".", "c", "o",
     "m", " ", "l", "o", "g", "i", "n", " ", "b", "a", "t", "m", "a", "n", " ", "p", "a",
     "s", "s", "w", "o", "r", "d", " ", "g", "o", "t", "h", "a", "m" >>

LayoutHolds(c, m) ==
  /\ c.contents = JoinLines(Lines(m.Logins, m.Format))
  /\ (m = AutoLogin(<<Login(github, batman, gotham)>>, Compact)) =>
       c.contents = ExpectedCompact

\* C7 as claimed: the rendering of n >= 1 records is their n (compact) or 3n
\* (full) lines, one newline between lines, no newline at the end
SerializerLayout ==
  (Rendered(last[1]) /\ netrc[1].Logins # <<>>) => LayoutHolds(last[1], netrc[1])

\* The password of the last record is non-empty and does not end in whitespace
LastPasswordKept(logins) ==
  LET p == logins[Len(logins)].Password
  IN p # <<>> /\ ~IsWhitespace(p[Len(p)])

\* C7, amended: the layout holds when the password of the last record is
\* non-empty and does not end in a whitespace character
SerializerLayoutKept ==
  (Rendered(last[1]) /\ netrc[1].Logins # <<>> /\ LastPasswordKept(netrc[1].Logins)) =>
    /\ LayoutHolds(last[1], netrc[1])
    /\ ~IsWhitespace(last[1].contents[Len(last[1].contents)])

\* Two records rendered in the full format as six lines
SerializerLayoutWitness ==
  /\ Rendered(last[1])
  /\ netrc[1].Format = Full /\ Len(netrc[1].Logins) = 2
  /\ LastPasswordKept(netrc[1].Logins)
  /\ Len(Lines(netrc[1].Logins, Full)) = 6
  /\ last[1].contents = JoinLines(Lines(netrc[1].Logins, Full))

\* The record of Tests.WithLogin rendered in the compact format
SerializerLayoutCompactWitness ==
  Rendered(last[1]) /\ netrc[1] = AutoLogin(<<Login(github, batman, gotham)>>, Compact)

\* C9: the compact and the full rendering of a record list parse to the
\* same result, and what WithFile accepts and appends is the parse of the
\* text whatever the format of the instance
FormatIndependent ==
  \A i \in DOMAIN netrc :
    /\ fromConfiguration(String(AutoLogin(netrc[i].Logins, Compact)))
         = fromConfiguration(String(AutoLogin(netrc[i].Logins, Full)))
    /\ (last[i].op = "WithFile" /\ ~last[i].arg.err) =>
         [logins |-> SubSeq(netrc[i].Logins, Len(last[i].before) + 1, Len(netrc[i].Logins)),
          err |-> last[i].err] = fromConfiguration(last[i].arg.value)

\* A full rendering of two records read back by an instance of the compact format
FormatIndependentWitness ==
  /\ netrc[1].Format = Full /\ netrc[2].Format = Compact
  /\ last[2].op = "WithFile" /\ ~last[2].err
  /\ Len(netrc[2].Logins) = 2
  /\ fromConfiguration(String(AutoLogin(netrc[1].Logins, Compact))).logins = netrc[2].Logins

\* C3 as claimed: a text whose first triple is not in the order machine,
\* login, password is rejected and no record is returned
PermutedRejected ==
  (input.kind = "permuted" /\ last[1].op = "WithFile") =>
    last[1].err /\ netrc[1].Logins = <<>>

\* C5 as claimed: well-formed triples followed by a bad triple are rejected
\* as a whole, and no record is returned or appended
StrictRejected ==
  (input.kind = "strict" /\ last[1].op = "WithFile") =>
    last[1].err /\ netrc[1].Logins = <<>>

\* C6 as claimed: records written in order with any non-empty runs of
\* whitespace between the tokens parse to exactly those records
LayoutAccepted ==
  (input.kind = "layout" /\ last[1].op = "WithFile") =>
    ~last[1].err /\ netrc[1].Logins = input.recs

Derived(c) == c.op = "AsSecret" /\ ~c.err /\ c.arg = <<>>

\* C10: AsSecret with an empty name names the secret netrc- or oci-config-
\* followed by the digest of the text that is the content of the secret, the
\* serialized configuration; two instances with the same entries (and the
\* same format) get the same derived name
DerivedName ==
  /\ \A i \in DOMAIN netrc :
       Derived(last[i]) =>
         /\ last[i].name = [literal |-> netrcPrefix, hex |-> Md5Hex(last[i].contents)]
         /\ last[i].contents = String(netrc[i])
  /\ \A i \in DOMAIN oci :
       Derived(olast[i]) =>
         /\ olast[i].name = [literal |-> ociPrefix, hex |-> Md5Hex(olast[i].contents)]
         /\ olast[i].contents = Marshal(oci[i])
  /\ \A i, j \in DOMAIN netrc :
       (Derived(last[i]) /\ Derived(last[j]) /\ netrc[i] = netrc[j]) =>
         last[i].name = last[j].name
  /\ \A i, j \in DOMAIN oci :
       (Derived(olast[i]) /\ Derived(olast[j]) /\ oci[i] = oci[j]) =>
         olast[i].name = olast[j].name

\* Two instances with the same two records and the same format, both given a
\* derived name
DerivedNameWitness ==
  /\ DOMAIN netrc = {1, 2}
  /\ Derived(last[1]) /\ Derived(last[2])
  /\ netrc[1] = netrc[2] /\ Len(netrc[1].Logins) = 2
  /\ netrc[1].Logins[1] # netrc[1].Logins[2]
  /\ last[1].name = last[2].name

\* Two registry instances with the same two entries, added in different
\* orders, both given a derived name
DerivedNameOciWitness ==
  /\ DOMAIN oci = {1, 2}
  /\ Derived(olast[1]) /\ Derived(olast[2])
  /\ oci[1] = oci[2] /\ DOMAIN oci[1] = {dockerIo, ghcrIo}
  /\ olast[1].name = olast[2].name

\* C11 as claimed: two configurations that differ in record order, in the
\* content of a record or in the format get different derived names
Sensitivity ==
  \A i, j \in DOMAIN netrc :
    (Derived(last[i]) /\ Derived(last[j]) /\ netrc[i] # netrc[j]) =>
      last[i].name # last[j].name

\* C11, amended: two configurations that differ get different derived names
\* when they are not both empty and every value of their records is
\* non-empty and holds no whitespace character
SensitivityClean ==
  \A i, j \in DOMAIN netrc :
    (/\ Derived(last[i]) /\ Derived(last[j]) /\ netrc[i] # netrc[j]
     /\ CleanLogins(netrc[i].Logins) /\ CleanLogins(netrc[j].Logins)
     /\ (netrc[i].Logins # <<>> \/ netrc[j].Logins # <<>>)) =>
      /\ last[i].name # last[j].name
      /\ last[i].contents # last[j].contents

\* The same two records in two orders, in the same format, both given a
\* derived name
SensitivityWitness ==
  /\ DOMAIN netrc = {1, 2}
  /\ Derived(last[1]) /\ Derived(last[2])
  /\ netrc[1].Format = netrc[2].Format
  /\ Len(netrc[1].Logins) = 2 /\ netrc[1].Logins[1] # netrc[1].Logins[2]
  /\ netrc[2].Logins = <<netrc[1].Logins[2], netrc[1].Logins[1]>>
  /\ CleanLogins(netrc[1].Logins)
  /\ last[1].name # last[2].name

\* The same record in the two formats, both given a derived name
SensitivityFormatWitness ==
  /\ DOMAIN netrc = {1, 2}
  /\ Derived(last[1]) /\ Derived(last[2])
  /\ netrc[1].Format = Compact /\ netrc[2].Format = Full
  /\ netrc[1].Logins = netrc[2].Logins /\ Len(netrc[1].Logins) = 1
  /\ last[1].name # last[2].name

Named(c) == c.op = "AsSecret" /\ ~c.err /\ c.arg # <<>>

\* C12: AsSecret with a non-empty name gives the secret exactly that name,
\* with no digest, and the serialized configuration as its content
ExplicitName ==
  /\ \A i \in DOMAIN netrc :
       Named(last[i]) =>
         /\ last[i].name = [literal |-> last[i].arg, hex |-> <<>>]
         /\ last[i].contents = String(netrc[i])
  /\ \A i \in DOMAIN oci :
       Named(olast[i]) =>
         /\ olast[i].name = [literal |-> olast[i].arg, hex |-> <<>>]
         /\ olast[i].contents = Marshal(oci[i])

\* A configuration of two records rendered as a secret with a name
ExplicitNameWitness ==
  /\ DOMAIN netrc = {1, 2}
  /\ Named(last[1]) /\ last[1].arg = <<"m", "y">>
  /\ Len(netrc[1].Logins) = 2
  /\ last[1].name.literal = <<"m", "y">> /\ last[1].contents # <<>>

\* A registry map of two entries rendered as a secret with a name
ExplicitNameOciWitness ==
  /\ DOMAIN oci = {1, 2}
  /\ Named(olast[1]) /\ olast[1].arg = <<"m", "y">>
  /\ DOMAIN oci[1] = {dockerIo, ghcrIo}
  /\ olast[1].name.literal = <<"m", "y">>

\* The number a character of the base64 alphabet stands for
Value(c) == (CHOOSE k \in 1..Len(encodeStd) : encodeStd[k] = c) - 1

\* The character of a byte
Char(b) == Ascii[b - 31]

\* The text a base64 encoding stands for: four characters give three bytes,
\* and a group that ends in = or == gives two bytes or one
RECURSIVE DecodeFrom(_, _)
DecodeFrom(enc, i) ==
  IF i >= Len(enc) THEN <<>>
  ELSE (IF enc[i + 3] = "="
        THEN <<Char(Value(enc[i + 1]) * 4 + Value(enc[i + 2]) \div 16)>>
        ELSE IF enc[i + 4] = "="
        THEN <<Char(Value(enc[i + 1]) * 4 + Value(enc[i + 2]) \div 16),
               Char((Value(enc[i + 2]) % 16) * 16 + Value(enc[i + 3]) \div 4)>>
        ELSE <<Char(Value(enc[i + 1]) * 4 + Value(enc[i + 2]) \div 16),
               Char((Value(enc[i + 2]) % 16) * 16 + Value(enc[i + 3]) \div 4),
               Char((Value(enc[i + 3]) % 4) * 64 + Value(enc[i + 4]))>>)
         \o DecodeFrom(enc, i + 4)

Decode(enc) == DecodeFrom(enc, 0)

\* The last successful WithAuth call of the history h for a hostname
LastWrite(h, hostname) ==
  h[CHOOSE k \in 1..Len(h) :
      /\ h[k].recs[1] = hostname
      /\ \A j \in (k + 1)..Len(h) : h[j].recs[1] # hostname]

\* C13: the map holds exactly one entry per hostname of the successful
\* WithAuth calls, the entry of a hostname is the encoding of the username
\* and password of the last of them for that hostname, and a call leaves the
\* entries of the other hostnames as they were
LastWriteWins ==
  \A i \in DOMAIN oci :
    /\ DOMAIN oci[i] = {hist[i][k].recs[1] : k \in 1..Len(hist[i])}
    /\ \A h \in DOMAIN oci[i] :
         /\ DOMAIN oci[i][h] = {"Auth"}
         /\ Decode(oci[i][h].Auth)
              = LastWrite(hist[i], h).recs[2] \o <<":">> \o LastWrite(hist[i], h).recs[3]
    /\ (olast[i].op = "WithAuth" /\ ~olast[i].err) =>
         \A h \in DOMAIN olast[i].before \ {olast[i].arg[1]} :
           h \in DOMAIN oci[i] /\ oci[i][h] = olast[i].before[h]

\* docker.io written for batman and then for joker, with ghcr.io between
LastWriteWinsWitness ==
  /\ DOMAIN oci = {1}
  /\ Len(hist[1]) = 3
  /\ hist[1][1].recs[1] = dockerIo /\ hist[1][1].recs[2] = batman
  /\ hist[1][2].recs[1] = ghcrIo
  /\ hist[1][3].recs[1] = dockerIo /\ hist[1][3].recs[2] = joker
  /\ DOMAIN oci[1] = {dockerIo, ghcrIo}
  /\ Decode(oci[1][dockerIo].Auth) = joker \o <<":">> \o ghcrPassword

\* The orders in which the keys of a map can be written
Orders(keys) ==
  {o \in [1..Cardinality(keys) -> keys] :
     \A j, k \in 1..Cardinality(keys) : j # k => o[j] # o[k]}

\* "hostname":{"auth":"<auth>"}
PlainEntry(hostname, auth) ==
  <<"\"">> \o hostname \o <<"\"", ":", "{", "\"", "a", "u", "t", "h", "\"", ":", "\"">>
    \o auth \o <<"\"", "}">>

RECURSIVE PlainEntries(_, _, _)
PlainEntries(m, order, k) ==
  IF k > Len(order) THEN <<>>
  ELSE PlainEntry(order[k], m[order[k]].Auth)
         \o (IF k < Len(order) THEN <<",">> ELSE <<>>) \o PlainEntries(m, order, k + 1)

\* {"auths":{ the entries of m in the given order }}
PlainConfig(m, order) ==
  <<"{", "\"", "a", "u", "t", "h", "s", "\"", ":", "{">> \o PlainEntries(m, order, 1)
    \o <<"}", "}">>

\* The calls of newOciLogin
NewOciLoginCalls ==
  << Contribution("WithAuth", <<dockerIo, batman, dockerPassword>>),
     Contribution("WithAuth", <<ghcrIo, joker, ghcrPassword>>),
     Contribution("WithAuth", <<quayIo, penguin, quayPassword>>) >>

\* C14: AsConfig yields the object with the single key auths that maps each
\* hostname added to an object with the single key auth, which holds
\* base64(username:password) of the call that added it, and nothing else;
\* after the calls of newOciLogin the output is expectedAuth
RegistryRendering ==
  \A i \in DOMAIN oci :
    olast[i].op = "AsConfig" =>
      /\ ~olast[i].err
      /\ \E order \in Orders(DOMAIN oci[i]) :
           olast[i].contents = PlainConfig(oci[i], order)
      /\ DOMAIN oci[i] = {hist[i][k].recs[1] : k \in 1..Len(hist[i])}
      /\ \A h \in DOMAIN oci[i] :
           Decode(oci[i][h].Auth)
             = LastWrite(hist[i], h).recs[2] \o <<":">> \o LastWrite(hist[i], h).recs[3]
      /\ hist[i] = NewOciLoginCalls => olast[i].contents = expectedAuth

\* The configuration of newOciLogin rendered as expectedAuth
RegistryRenderingWitness ==
  /\ DOMAIN oci = {1}
  /\ hist[1] = NewOciLoginCalls
  /\ olast[1].op = "AsConfig"
  /\ olast[1].contents = expectedAuth

\* {"auths":{}}
EmptyConfig == <<"{", "\"", "a", "u", "t", "h", "s", "\"", ":", "{", "}", "}">>

\* C15: a configuration without entries renders without error, to the empty
\* text for the auto-login model in either format and to {"auths":{}} for
\* the registry model
EmptyRendering ==
  /\ \A i \in DOMAIN netrc :
       (last[i].op \in {"AsFile", "AsSecret"} /\ netrc[i].Logins = <<>>) =>
         ~last[i].err /\ last[i].contents = <<>>
  /\ \A i \in DOMAIN oci :
       (olast[i].op \in {"AsConfig", "AsSecret"} /\ DOMAIN oci[i] = {}) =>
         ~olast[i].err /\ olast[i].contents = EmptyConfig

\* A new registry instance rendered as a file
EmptyRenderingWitness ==
  /\ DOMAIN oci = {1}
  /\ hist[1] = <<>> /\ oci[1] = NewOci
  /\ olast[1].op = "AsConfig" /\ olast[1].contents = EmptyConfig

\* A new auto-login instance of the full format rendered as a file
EmptyRenderingNetrcWitness ==
  /\ DOMAIN netrc = {1}
  /\ hist[1] = <<>> /\ netrc[1] = New(Full)
  /\ last[1].op = "AsFile" /\ ~last[1].err /\ last[1].contents = <<>>

\* A record whose three fields are the resolved values of one WithLogin call
Resolved(l) ==
  \E a \in ModuleLoginArgs :
    ~a[2].err /\ ~a[3].err /\ l = Login(a[1], a[2].value, a[3].value)

\* C16: a WithLogin call whose password or username fails to resolve, and a
\* WithAuth call whose password fails to resolve, returns the error and
\* leaves the records or entries as they were; every record and entry held
\* is made of resolved values only
ResolutionAtomic ==
  /\ \A i \in DOMAIN netrc :
       /\ (last[i].op = "WithLogin" /\ (last[i].arg[2].err \/ last[i].arg[3].err)) =>
            /\ last[i].err
            /\ netrc[i].Logins = last[i].before
            /\ netrc[i].Logins = Flatten(hist[i])
       /\ \A k \in 1..Len(netrc[i].Logins) : Resolved(netrc[i].Logins[k])
  /\ \A i \in DOMAIN oci :
       /\ (olast[i].op = "WithAuth" /\ olast[i].arg[3].err) =>
            olast[i].err /\ oci[i] = olast[i].before
       /\ \A h \in DOMAIN oci[i] :
            \E a \in RegistryArgs :
              ~a[3].err /\ a[1] = h /\ Decode(oci[i][h].Auth) = a[2] \o <<":">> \o a[3].value

\* A WithLogin call whose username fails to resolve on an instance of one record
ResolutionAtomicWitness ==
  /\ DOMAIN netrc = {1}
  /\ last[1].op = "WithLogin" /\ last[1].arg[2].err /\ ~last[1].arg[3].err
  /\ last[1].err
  /\ Len(netrc[1].Logins) = 1 /\ netrc[1].Logins = last[1].before

\* A WithAuth call whose password fails to resolve on a map of one entry
ResolutionAtomicOciWitness ==
  /\ DOMAIN oci = {1}
  /\ olast[1].op = "WithAuth" /\ olast[1].arg[3].err /\ olast[1].err
  /\ DOMAIN oci[1] = {dockerIo} /\ oci[1] = olast[1].before

\* C17 as claimed: a WithAuth call with an empty hostname, and a WithLogin
\* call with an empty machine or an empty username, returns an error and
\* stores nothing, so that no entry or record has an empty required field
RequiredFields ==
  /\ \A i \in DOMAIN oci :
       /\ (olast[i].op = "WithAuth" /\ olast[i].arg[1] = <<>>) =>
            olast[i].err /\ oci[i] = olast[i].before
       /\ <<>> \notin DOMAIN oci[i]
  /\ \A i \in DOMAIN netrc :
       /\ (/\ last[i].op = "WithLogin"
           /\ (last[i].arg[1] = <<>> \/ last[i].arg[2].value = <<>>)) =>
            last[i].err /\ netrc[i].Logins = last[i].before
       /\ \A k \in 1..Len(netrc[i].Logins) :
            netrc[i].Logins[k].Machine # <<>> /\ netrc[i].Logins[k].Username # <<>>

\* C18 as claimed: a successful WithLogin or WithAuth call leaves the
\* instance it was called on with the records or entries it held before
Branching ==
  /\ \A i \in DOMAIN netrc :
       (last[i].op = "WithLogin" /\ ~last[i].err) => netrc[i].Logins = last[i].before
  /\ \A i \in DOMAIN oci :
       (olast[i].op = "WithAuth" /\ ~olast[i].err) => oci[i] = olast[i].before

\* C19: the file AsFile or AsConfig returns for a configuration and the
\* secret AsSecret returns for the same configuration, with or without a
\* name, have the same content
SameBytes ==
  /\ \A i, j \in DOMAIN netrc :
       (/\ last[i].op = "AsFile" /\ ~last[i].err
        /\ last[j].op = "AsSecret" /\ ~last[j].err
        /\ netrc[i] = netrc[j]) => last[i].contents = last[j].contents
  /\ \A i, j \in DOMAIN oci :
       (/\ olast[i].op = "AsConfig" /\ ~olast[i].err
        /\ olast[j].op = "AsSecret" /\ ~olast[j].err
        /\ oci[i] = oci[j]) => olast[i].contents = olast[j].contents

\* Two records rendered as a file and as a secret with a derived name
SameBytesWitness ==
  /\ DOMAIN netrc = {1, 2}
  /\ netrc[1] = netrc[2] /\ Len(netrc[1].Logins) = 2
  /\ last[1].op = "AsFile" /\ ~last[1].err
  /\ Derived(last[2])
  /\ last[1].contents = last[2].contents /\ last[1].contents # <<>>

\* Two registry entries rendered as a file and as a secret with a name
SameBytesOciWitness ==
  /\ DOMAIN oci = {1, 2}
  /\ oci[1] = oci[2] /\ DOMAIN oci[1] = {dockerIo, ghcrIo}
  /\ olast[1].op = "AsConfig" /\ Named(olast[2])
  /\ olast[1].contents = olast[2].contents

TripleRequired ==
  (input.kind = "headless" /\ last[1].op = "WithFile") =>
    /\ last[1].err
    /\ netrc[1].Logins = last[1].before
    /\ hist[1] = <<>>
    /\ fromConfiguration(input.text).err

\* The empty text was rejected
TripleRequiredWitness ==
  /\ input.kind = "headless" /\ last[1].op = "WithFile"
  /\ input.text = <<>> /\ last[1].err /\ netrc[1].Logins = <<>>

\* Two well-formed triples after a newline were rejected
TripleRequiredLeadingWitness ==
  /\ input.kind = "headless" /\ last[1].op = "WithFile" /\ last[1].err
  /\ \E recs \in LayoutRecords :
       /\ Len(recs) = 2
       /\ input.text = <<LF>> \o WriteRecords(recs, <<SP>>, <<SP>>, <<LF>>)
  /\ netrc[1].Logins = <<>>

\* C22: eatIdent(keyword) succeeds only if the keyword is followed by at
\* least one whitespace character and then a value token, and every value it
\* extracts is non-empty and contains no whitespace character of any kind
\* (no space, tab, CR or LF)
FieldMatcher ==
  last[1].op = "WithFile" =>
    /\ ~eatIdent(machineIdent, input.text).err =>
         /\ HasPrefix(input.text, machineIdent)
         /\ Len(input.text) > Len(machineIdent)
         /\ IsWhitespace(input.text[Len(machineIdent) + 1])
         /\ CleanValue(eatIdent(machineIdent, input.text).ext)
    /\ CleanLogins(netrc[1].Logins)

\* s is a prefix of t
IsPrefix(s, t) == Len(s) <= Len(t) /\ SubSeq(t, 1, Len(s)) = s

\* C23: along any sequence of operations on one live instance, the records
\* at an earlier point are a prefix of the records at every later point and
\* the hostnames of the registry map never lose a member; no operation,
\* failed ones and renders included, removes an entry
Grows ==
  /\ \A i \in DOMAIN netrc : IsPrefix(netrc[i].Logins, netrc'[i].Logins)
  /\ \A i \in DOMAIN oci : DOMAIN oci[i] \subseteq DOMAIN oci'[i]

MonotonicGrowth == [][Grows]_vars

\* A call that failed on an instance that holds the records of two
\* successful calls
MonotonicGrowthWitness ==
  \E i \in DOMAIN netrc :
    /\ last[i].op \in {"WithLogin", "WithFile"} /\ last[i].err
    /\ Len(hist[i]) = 2 /\ netrc[i].Logins = Flatten(hist[i])
    /\ Len(netrc[i].Logins) >= 2

\* A WithAuth call that failed on a registry map of two hostnames
MonotonicGrowthOciWitness ==
  \E i \in DOMAIN oci :
    /\ olast[i].op = "WithAuth" /\ olast[i].err
    /\ DOMAIN oci[i] = {dockerIo, ghcrIo}

\* C25: for every Netrc instance New can produce, one whose format is neither
\* compact nor full included, and every sequence of successful additions,
\* AsFile and AsSecret complete and return text: the format function that
\* AutoLogin.String selects is defined when it is applied to a record
RendererSet ==
  \A i \in DOMAIN netrc :
    last[i].op \in {"AsFile", "AsSecret"} =>
      ~last[i].err /\ last[i].contents = String(AutoLogin(last[i].before, netrc[i].Format))

\* C24: when operations on two independently constructed configurations are
\* interleaved in any order, each configuration ends with exactly the content
\* its own operations would produce if run alone: a call on one instance
\* leaves the other as it was, and an instance holds what its own calls
\* contributed
Alone ==
  /\ \A i, j \in DOMAIN netrc :
       (i # j /\ last'[i] # last[i]) =>
         netrc'[j] = netrc[j] /\ last'[j] = last[j] /\ hist'[j] = hist[j]
  /\ \A i \in DOMAIN netrc : netrc'[i].Logins = Flatten(hist'[i])
  /\ \A i, j \in DOMAIN oci :
       (i # j /\ olast'[i] # olast[i]) => oci'[j] = oci[j] /\ olast'[j] = olast[j]
  /\ \A i \in DOMAIN oci :
       oci'[i] # oci[i] =>
         /\ olast'[i].op = "WithAuth" /\ ~olast'[i].err /\ olast'[i].before = oci[i]
         /\ DOMAIN oci'[i] = DOMAIN oci[i] \cup {olast'[i].arg[1]}
         /\ \A h \in DOMAIN oci[i] \ {olast'[i].arg[1]} : oci'[i][h] = oci[i][h]

NoInterference == [][Alone]_vars

\* Two instances built by interleaved calls hold different records
NoInterferenceWitness ==
  /\ DOMAIN netrc = {1, 2}
  /\ netrc[1].Logins = <<Login(github, batman, gotham), Login(gitlab, joker, arkam)>>
  /\ netrc[2].Logins = <<Login(gitlab, joker, arkam)>>
  /\ last[1].op = "WithLogin" /\ last[2].op = "AsSecret"

\* Two registry instances hold different hostnames
NoInterferenceOciWitness ==
  /\ DOMAIN oci = {1, 2}
  /\ DOMAIN oci[1] = {dockerIo} /\ DOMAIN oci[2] = {ghcrIo}
  /\ olast[1].op = "WithAuth" /\ olast[2].op = "AsConfig"

\* C26: the flat value list handed to the mapping function of
\* fromConfiguration has a length that is a positive multiple of three, and
\* the i-th record is built from the values 3i, 3i+1, 3i+2 (counted from
\* zero) as (machine, username, password)
Regrouped(in, logins) ==
  /\ Len(in) > 0 /\ Len(in) % 3 = 0
  /\ Len(logins) * 3 = Len(in)
  /\ \A k \in 1..Len(logins) :
       logins[k] = Login(in[3 * k - 2], in[3 * k - 1], in[3 * k])

Regrouping ==
  last[1].op = "WithFile" =>
    \A r \in {ManyN(input.text, 1)} :
      ~r.err =>
        /\ ~last[1].err
        /\ Regrouped(r.ext, netrc[1].Logins)
        /\ Map(r).logins = netrc[1].Logins

\* Two triples were regrouped from six values
RegroupingWitness ==
  /\ last[1].op = "WithFile" /\ ~last[1].err
  /\ Len(ManyN(input.text, 1).ext) = 6
  /\ netrc[1].Logins = <<Login(x, y, z), Login(y, x, x)>>

\* The final assignments of a history: for each hostname, the username and
\* password of its last call
Final(h) ==
  [host \in {h[k].recs[1] : k \in 1..Len(h)} |->
     <<LastWrite(h, host).recs[2], LastWrite(h, host).recs[3]>>]

\* C27: two registry configurations that received the same final
\* (hostname -> username, password) assignments through WithAuth calls in
\* different orders render byte-identical JSON and get the same derived
\* secret name
OrderIndependent ==
  \A i, j \in DOMAIN oci :
    (/\ Final(hist[i]) = Final(hist[j])
     /\ olast[i].op \in {"AsConfig", "AsSecret"}
     /\ olast[j].op \in {"AsConfig", "AsSecret"}) =>
      /\ olast[i].contents = olast[j].contents
      /\ olast[i].contents = Marshal(oci[i])
      /\ (Derived(olast[i]) /\ Derived(olast[j])) => olast[i].name = olast[j].name

\* docker.io then ghcr.io on one instance, ghcr.io then docker.io twice on
\* the other, both given a derived name
OrderIndependentWitness ==
  /\ DOMAIN oci = {1, 2}
  /\ Len(hist[1]) = 2 /\ hist[1][1].recs[1] = dockerIo /\ hist[1][2].recs[1] = ghcrIo
  /\ Len(hist[2]) = 3 /\ hist[2][1].recs[1] = ghcrIo
  /\ Final(hist[1]) = Final(hist[2])
  /\ Derived(olast[1]) /\ Derived(olast[2])
  /\ olast[1].name = olast[2].name /\ olast[1].contents = olast[2].contents

\* C28: AsFile, AsConfig and AsSecret leave the records, the format and the
\* registry entries of the instance unchanged, at any point of a builder
\* chain, and two renders with no mutation in between return identical
\* content and identical derived name
Reads ==
  /\ \A i \in DOMAIN netrc :
       last'[i].op \in {"AsFile", "AsSecret"} =>
         /\ netrc'[i] = netrc[i]
         /\ ~last'[i].err => last'[i].contents = String(netrc[i])
         /\ (Rendered(last[i]) /\ Rendered(last'[i])) =>
              last'[i].contents = last[i].contents
         /\ (Derived(last[i]) /\ Derived(last'[i])) => last'[i].name = last[i].name
  /\ \A i \in DOMAIN oci :
       olast'[i].op \in {"AsConfig", "AsSecret"} =>
         /\ oci'[i] = oci[i]
         /\ olast'[i].contents = Marshal(oci[i])
         /\ olast[i].op \in {"AsConfig", "AsSecret"} =>
              olast'[i].contents = olast[i].contents
         /\ (Derived(olast[i]) /\ Derived(olast'[i])) => olast'[i].name = olast[i].name

PureRead == [][Reads]_vars

\* A file rendered in the full format from an instance that keeps its two
\* records
PureReadWitness ==
  \E i \in DOMAIN netrc :
    /\ last[i].op = "AsFile" /\ ~last[i].err /\ netrc[i].Format = Full
    /\ Len(netrc[i].Logins) = 2 /\ netrc[i].Logins = last[i].before
    /\ last[i].contents = String(netrc[i])

\* A configuration rendered from a registry map that keeps its three entries
PureReadOciWitness ==
  \E i \in DOMAIN oci :
    /\ olast[i].op = "AsConfig" /\ oci[i] = olast[i].before
    /\ DOMAIN oci[i] = {dockerIo, ghcrIo, quayIo}
    /\ olast[i].contents = Marshal(oci[i])

\* C29: for every text t that is the compact (respectively full) rendering
\* of a non-empty record list with non-empty whitespace-free values,
\* ingesting t into an empty configuration of the same format and rendering
\* returns exactly t
CanonicalFixedPoint ==
  (CleanLogins(input.recs) /\ input.format = netrc[1].Format) =>
    /\ last[1].op = "WithFile" => ~last[1].err /\ netrc[1].Logins = input.recs
    /\ last[1].op = "AsFile" => ~last[1].err /\ last[1].contents = input.text

\* The full rendering of two different records was ingested and rendered
\* again in the full format
CanonicalFixedPointWitness ==
  /\ last[1].op = "AsFile" /\ ~last[1].err
  /\ input.format = Full /\ netrc[1].Format = Full
  /\ Len(input.recs) = 2 /\ input.recs[1] # input.recs[2]
  /\ last[1].contents = input.text
  /\ input.text = String(AutoLogin(input.recs, Full))

\* The compact rendering of two records was ingested and rendered again in
\* the compact format
CanonicalFixedPointCompactWitness ==
  /\ last[1].op = "AsFile" /\ ~last[1].err
  /\ input.format = Compact /\ netrc[1].Format = Compact
  /\ Len(input.recs) = 2 /\ last[1].contents = input.text

\* C30: for every sequence of WithLogin calls with the same resolved
\* (machine, username, password) values, the original module and the
\* format-aware module constructed with format compact produce identical
\* serialized text and identical derived secret name
Agreement ==
  Flatten(hist[1]) = Flatten(hist[2]) =>
    /\ netrc[1].Logins = netrc[2].Logins
    /\ String(netrc[1]) = OriginalString(netrc[2])
    /\ (Rendered(last[1]) /\ Rendered(last[2])) => last[1].contents = last[2].contents
    /\ (Derived(last[1]) /\ Derived(last[2])) => last[1].name = last[2].name

\* Both modules were given two records, the second with a password that
\* ends in a space, and both named the secret by the digest
AgreementWitness ==
  /\ netrc[1].Format = Compact /\ DOMAIN netrc[2] = {"Logins"}
  /\ Len(hist[1]) = 2 /\ Flatten(hist[1]) = Flatten(hist[2])
  /\ netrc[2].Logins[2].Password = gotham \o <<SP>>
  /\ Derived(last[1]) /\ Derived(last[2])
  /\ last[1].name = last[2].name /\ last[1].contents = last[2].contents
====
